---- MODULE Spec2Model ----
(***************************************************************************)
(* Model of the batch pose-prediction pipeline of multiligand_inference.py *)
(* (run_batch, run_corrections, write_while_inferring).                    *)
(*                                                                         *)
(* The learned model is an opaque callable.  Its behaviour is fixed, for a *)
(* whole run, by a configuration `model` (shape of its output, which       *)
(* optional outputs it exposes, kind of value it returns as geometric      *)
(* loss) and, per ligand, by the keypoint geometry it predicts for that    *)
(* ligand.  A call may raise; which exception it raises is chosen when the *)
(* call is made.                                                           *)
(*                                                                         *)
(* Geometry lives on the integer line: a point has one coordinate, a       *)
(* rotation is +1 or -1, the Euclidean norm is the absolute value.  The    *)
(* keypoint sets are chosen so that every mean is an integer.              *)
(*                                                                         *)
(* Spec follows one run of write_while_inferring; SpecCorrections follows  *)
(* one call of run_corrections statement by statement; SpecResume lets a   *)
(* run be interrupted and main be run again on its output directory;       *)
(* SpecLogs writes the records of one group and reads the logs back;       *)
(* SpecRuns is SpecResume with one of the two logs missing at the second   *)
(* run.  SpecDelta, SpecSplit and SpecPost start from the output directory *)
(* of a finished run and follow its readers: process_equibind_output,      *)
(* split_multiligand_sdf and copy_top_15_sdf_files.                        *)
(***************************************************************************)
EXTENDS Integers, Sequences, FiniteSets, TLC

\* number of ligands in the dataset of one run
NumLigs == 3

\* args.batch_size, scaled down
BatchSize == 2

----------------------------------------------------------------------------
(* Python values *)

None == [some |-> FALSE]
Some(v) == [some |-> TRUE, val |-> v]

Min(a, b) == IF a <= b THEN a ELSE b

Abs(x) == IF x < 0 THEN -x ELSE x

RECURSIVE SumSeq(_)
SumSeq(s) == IF s = <<>> THEN 0 ELSE Head(s) + SumSeq(Tail(s))

\* a tensor: ndim = len(t.shape); a 1-D tensor holds the coordinates of one
\* point, a 2-D tensor holds one point per row
Vec(x) == [ndim |-> 1, data |-> <<x>>]
Mat(xs) == [ndim |-> 2, data |-> [j \in 1..Len(xs) |-> <<xs[j]>>]]

\* exceptions a model call raises, and exceptions at all
ModelExceptions == {"AssertionError", "RuntimeError"}
Exceptions == ModelExceptions \cup {"TypeError", "LinAlgError"}

----------------------------------------------------------------------------
(* Ligand names: strings as sequences of characters *)

Digits == <<"0", "1", "2", "3", "4", "5", "6", "7", "8", "9">>

\* f"{true_index}"
RECURSIVE IndexStr(_)
IndexStr(n) == IF n < 10 THEN <<Digits[n + 1]>>
               ELSE IndexStr(n \div 10) \o <<Digits[(n % 10) + 1]>>

\* str.strip()
RECURSIVE LStrip(_)
LStrip(s) == IF s # <<>> /\ Head(s) = " " THEN LStrip(Tail(s)) ELSE s

RECURSIVE RStrip(_)
RStrip(s) == IF s # <<>> /\ s[Len(s)] = " " THEN RStrip(SubSeq(s, 1, Len(s) - 1)) ELSE s

Strip(s) == RStrip(LStrip(s))

----------------------------------------------------------------------------
(* The inputs: ligands and the model *)

\* keypoint geometry the model predicts for one ligand:
\* ligand keypoints, receptor keypoints, rotation, translation
GeoExact == [lig |-> Some(Vec(1)), rec |-> Some(Vec(1)), rot |-> 1, trans |-> 0]
GeoTwo == [lig |-> Some(Mat(<<0, 2>>)), rec |-> Some(Mat(<<1, 1>>)), rot |-> -1, trans |-> 1]
GeoBroken == [lig |-> None, rec |-> Some(Vec(1)), rot |-> 1, trans |-> 0]

\* a ligand: its name property, whether the model can process it at all,
\* and the keypoint geometry the model predicts for it
Lig(name, malformed, geo) == [name |-> name, malformed |-> malformed, geo |-> geo]

\* the ligands a dataset is made of: the name property is present, blank or
\* absent (None), on ligands the model can process and on malformed ones; one
\* name holds a space; every geometry occurs
Ligs == {Lig(Some(<<"m">>), FALSE, GeoExact), Lig(Some(<<" ">>), FALSE, GeoTwo),
         Lig(None, FALSE, GeoBroken),
         Lig(Some(<<"m", " ", "m">>), TRUE, GeoExact), Lig(Some(<<" ">>), TRUE, GeoExact),
         Lig(None, TRUE, GeoExact)}

\* the value the model returns as geometric loss
GeomLosses == {[type |-> "float", numel |-> 1, val |-> 2],
               [type |-> "Tensor", numel |-> 1, val |-> 2],
               [type |-> "Tensor", numel |-> 2, val |-> 2],
               [type |-> "NoneType", numel |-> 0, val |-> 0]}

\* the model: shape of its output (a bare prediction, a tuple of fewer than six
\* elements, a tuple of six), the number of elements of the output, the
\* optional output it returns as None, its geometric loss
Models == [shape : {"bare"}, len : {1}, missing : {"none"},
           geom : {[type |-> "float", numel |-> 1, val |-> 2]}]
          \cup [shape : {"short"}, len : {1, 5}, missing : {"none"},
                geom : {[type |-> "float", numel |-> 1, val |-> 2]}]
          \cup [shape : {"full"}, len : {6},
                missing : {"ligs_keypts", "recs_keypts", "rotations", "translations"},
                geom : {[type |-> "float", numel |-> 1, val |-> 2]}]
          \cup [shape : {"full"}, len : {6}, missing : {"none"}, geom : GeomLosses]

Opt(m, field, v) == IF m.missing = field THEN None ELSE Some(v)

\* model(lig_graphs, rec_graphs, geometry_graphs) for a batch of entries:
\* a bare prediction or a tuple
ModelOutput(m, entries) ==
    LET n == Len(entries)
        preds == [j \in 1..n |-> entries[j].true_index]
        lk == [j \in 1..n |-> entries[j].lig.geo.lig]
        rk == [j \in 1..n |-> entries[j].lig.geo.rec]
        ro == [j \in 1..n |-> entries[j].lig.geo.rot]
        tr == [j \in 1..n |-> entries[j].lig.geo.trans]
    IN  IF m.shape = "bare" THEN [tuple |-> FALSE, elems |-> <<preds>>]
        ELSE [tuple |-> TRUE,
              elems |-> SubSeq(<<preds, Opt(m, "ligs_keypts", lk), Opt(m, "recs_keypts", rk),
                                 Opt(m, "rotations", ro), Opt(m, "translations", tr), m.geom>>,
                               1, m.len)]

\* how a model call on these entries can end: it returns only if no entry is
\* malformed; a batch of several entries can fail although each entry is fine
CallOutcomes(entries) ==
    IF \E j \in 1..Len(entries) : entries[j].lig.malformed THEN ModelExceptions
    ELSE IF Len(entries) = 1 THEN {"ok"}
    ELSE {"ok"} \cup ModelExceptions

----------------------------------------------------------------------------
(* run_batch: unpacking the model output *)

NoOptionals == [ligs_keypts |-> None, recs_keypts |-> None, rotations |-> None,
                translations |-> None, geom_losses |-> [type |-> "NoneType", numel |-> 0, val |-> 0]]

\* the if/elif/else on the shape of model_output
Unpack(model_output) ==
    IF model_output.tuple /\ Len(model_output.elems) >= 6
    THEN [predictions |-> model_output.elems[1],
          ligs_keypts |-> model_output.elems[2], recs_keypts |-> model_output.elems[3],
          rotations |-> model_output.elems[4], translations |-> model_output.elems[5],
          geom_losses |-> model_output.elems[6]]
    ELSE [predictions |-> model_output.elems[1]] @@ NoOptionals

----------------------------------------------------------------------------
(* run_batch: the confidence score.  A computation that can raise yields    *)
(* [ok |-> FALSE] when it raises and [ok |-> TRUE, val |-> v] otherwise.    *)

Raise == [ok |-> FALSE, val |-> 0]
Ret(v) == [ok |-> TRUE, val |-> v]

\* x[i] on an optional list: None[i] raises, as does an index out of range
Item(x, i) == IF x.some /\ i \in 1..Len(x.val) THEN Ret(x.val[i]) ELSE Raise

\* if len(t.shape) == 1: t = t.unsqueeze(0); None has no attribute shape
Ensure2D(t) ==
    IF ~t.some THEN Raise
    ELSE IF t.val.ndim = 1 THEN Ret([ndim |-> 2, data |-> <<t.val.data>>])
    ELSE Ret(t.val)

\* (rotation @ lig_kpt.t()).t() + translation
Transform(rotation, translation, kpt) ==
    [ndim |-> 2, data |-> [j \in 1..Len(kpt.data) |-> <<rotation * kpt.data[j][1] + translation>>]]

\* torch.mean(torch.norm(a - b, dim=1)); a one-row operand is broadcast
MeanNorm(a, b) ==
    LET n == IF Len(a.data) >= Len(b.data) THEN Len(a.data) ELSE Len(b.data)
        row(t, j) == IF Len(t.data) = 1 THEN t.data[1][1] ELSE t.data[j][1]
    IN  IF Len(a.data) # Len(b.data) /\ Len(a.data) # 1 /\ Len(b.data) # 1 THEN Raise
        ELSE Ret(SumSeq([j \in 1..n |-> Abs(row(a, j) - row(b, j))]) \div n)

\* keypoint_alignment_loss of one item, from the four per-item values
KeypointAlignmentLoss(lig_kpt, rec_kpt, rotation, translation) ==
    IF ~(lig_kpt.ok /\ rec_kpt.ok /\ rotation.ok /\ translation.ok) THEN Raise
    ELSE LET l == Ensure2D(lig_kpt.val)
             r == Ensure2D(rec_kpt.val)
         IN  IF ~(l.ok /\ r.ok) THEN Raise
             ELSE MeanNorm(Transform(rotation.val, translation.val, l.val), r.val)

\* float(x): a tensor converts only if it has exactly one element
Float(x) == IF x.type \in {"int", "float"} \/ (x.type = "Tensor" /\ x.numel = 1)
            THEN Ret(x.val) ELSE Raise

\* batched path: float(geom_losses) if isinstance(geom_losses, (int, float)) else 0.0
GeomLossValBatched(geom_losses) ==
    IF geom_losses.type \in {"int", "float"} THEN Float(geom_losses) ELSE Ret(0)

\* fallback path: float(geom_loss) if isinstance(geom_loss, (int, float, torch.Tensor)) else 0.0
GeomLossValIndividual(geom_loss) ==
    IF geom_loss.type \in {"int", "float", "Tensor"} THEN Float(geom_loss) ELSE Ret(0)

\* the test that selects the computation of confidence scores in the batched path
AllPresent(u) ==
    u.ligs_keypts.some /\ u.recs_keypts.some /\ u.rotations.some /\ u.translations.some

\* value appended by the "except Exception" of a confidence computation
OnConfidenceError == 0

\* batched path: body of "for i in range(batch_size)" with its try/except
ConfidenceOfItem(u, i) ==
    LET loss == KeypointAlignmentLoss(Item(u.ligs_keypts, i), Item(u.recs_keypts, i),
                                      Item(u.rotations, i), Item(u.translations, i))
        g == GeomLossValBatched(u.geom_losses)
    IN  IF loss.ok /\ g.ok THEN -loss.val - g.val ELSE OnConfidenceError

\* variant: one try around the whole loop, so that one failing item leaves
\* every item of the batch with the value of the handler
ConfidenceScoresOneTry(u) ==
    LET fails(i) == ~KeypointAlignmentLoss(Item(u.ligs_keypts, i), Item(u.recs_keypts, i),
                                           Item(u.rotations, i), Item(u.translations, i)).ok
    IN  IF AllPresent(u) /\ ~(\E i \in 1..Len(u.predictions) : fails(i))
        THEN [i \in 1..Len(u.predictions) |-> ConfidenceOfItem(u, i)]
        ELSE [i \in 1..Len(u.predictions) |-> OnConfidenceError]

\* batched path: confidence_scores of the whole batch
ConfidenceScoresBatched(u) ==
    IF AllPresent(u) THEN [i \in 1..Len(u.predictions) |-> ConfidenceOfItem(u, i)]
    ELSE [i \in 1..Len(u.predictions) |-> 0]

\* fallback path: the inner try/except computing the confidence of the one
\* item of an individual call that returned a tuple of six
ConfidenceIndividual(u) ==
    LET loss == KeypointAlignmentLoss(Item(u.ligs_keypts, 1), Item(u.recs_keypts, 1),
                                      Item(u.rotations, 1), Item(u.translations, 1))
        g == GeomLossValIndividual(u.geom_losses)
    IN  IF loss.ok /\ g.ok THEN Ret(-loss.val - g.val) ELSE Raise

\* variant: the confidence computation of the fallback path is unguarded
ConfidenceErrorEscapes == FALSE

\* does the inner "except Exception" of the fallback path catch the failure
\* of the confidence computation
CatchesConfidenceError == TRUE

\* variant: every tuple is unpacked into six names, which raises for a tuple
\* of fewer than six elements
IndividualResultSixOnly(model_output) ==
    IF model_output.tuple /\ Len(model_output.elems) < 6 THEN Raise
    ELSE IF model_output.tuple
    THEN LET u == Unpack(model_output)
             c == ConfidenceIndividual(u)
         IN  Ret([prediction |-> u.predictions[1],
                  confidence |-> IF c.ok THEN c.val ELSE OnConfidenceError])
    ELSE Ret([prediction |-> model_output.elems[1][1], confidence |-> 0])

\* fallback path: what the body of the outer try yields for one model output:
\* the prediction and the confidence, or an exception
IndividualResult(model_output) ==
    IF model_output.tuple /\ Len(model_output.elems) >= 6
    THEN LET u == Unpack(model_output)
             c == ConfidenceIndividual(u)
         IN  IF c.ok THEN Ret([prediction |-> u.predictions[1], confidence |-> c.val])
             ELSE IF CatchesConfidenceError
                  THEN Ret([prediction |-> u.predictions[1], confidence |-> OnConfidenceError])
                  ELSE Raise
    ELSE Ret([prediction |-> model_output.elems[1][1], confidence |-> 0])

\* lig.HasProp("_Name") and lig.GetProp("_Name").strip(), else f"{true_index}"
\* variant: the name property is used whenever it is present, blank or not
LigNameIfPresent(lig, true_index) ==
    IF lig.name.some THEN lig.name.val ELSE IndexStr(true_index)

LigName(lig, true_index) ==
    IF lig.name.some /\ Strip(lig.name.val) # <<>> THEN lig.name.val ELSE IndexStr(true_index)

\* zip(a, b, c) stops at the shortest of its arguments
Zip3(a, b, c) == [j \in 1..Min(Len(a), Min(Len(b), Len(c))) |-> <<a[j], b[j], c[j]>>]

----------------------------------------------------------------------------
(* State *)

VARIABLES
    dataset,            \* dataloader.dataset: the ligands, in input order
    model,              \* the model
    run_corrections,    \* args.run_corrections
    pc,                 \* position of the control flow of write_while_inferring
    pos,                \* number of ligands the dataloader has handed out
    batch,              \* ligs and true_indices of the group being processed
    path,               \* which path of run_batch handles the group
    k,                  \* position of the loop in progress inside the group
    attempted,          \* true indices of the individual model calls of the group
    out_ligs, out_lig_coords, predictions, confidence_scores, successes, failures,
    opt_mols,
    output_sdf, success_txt, failed_txt, confidence_data,
    confidence_csv,     \* confidence_scores.csv
    raised              \* the exception that left write_while_inferring, if any

\* runs of main on one output directory
VARIABLES
    previous_work,      \* the indices main read from the logs, None on a first run
    run,                \* number of the run of main: 1, or 2 when it resumes
    logs                \* the logs that exist in the output directory

session == <<previous_work, run, logs>>

\* success.txt and failed.txt
LogFiles == {"success.txt", "failed.txt"}

\* the programs that read the output directory of the inference:
\* process_equibind_delta.py and post_processing.py
VARIABLES
    dpc,                \* position of the control flow of the reading program
    valid,              \* is_valid_molecule of the molecules of output.sdf, by position
    relative,           \* the paths given on the command line are relative
    success_ids,        \* what read_success_file returned, None without success.txt
    ligand_files,       \* the (i, ligand_<i>.pdb) split_multiligand_sdf returned
    tool,               \* what Delta LinF9 does with each ligand file when it is given it
    results,            \* the result rows of process_equibind_output
    cwd,                \* working directory of the process
    results_csv,        \* delta_linf9_results.csv
    ranked_csv,         \* ligands_ranked.csv
    copied_files,       \* what copy_top_15_sdf_files returned
    dest_dir            \* the files copy_top_15_sdf_files wrote, by filename

downstream == <<dpc, valid, relative, success_ids, ligand_files, tool, results, cwd,
                results_csv, ranked_csv, copied_files, dest_dir>>

\* none of the reading programs has been started
DownstreamIdle ==
    /\ dpc = "idle"
    /\ valid = <<>>
    /\ relative = FALSE
    /\ success_ids = None
    /\ ligand_files = <<>>
    /\ tool = <<>>
    /\ results = <<>>
    /\ cwd = "start"
    /\ results_csv = None
    /\ ranked_csv = None
    /\ copied_files = None
    /\ dest_dir = {}

\* one call of run_corrections: the molecule objects, and the names of the
\* function, which hold references to them
VARIABLES
    heap,               \* the molecule objects; a reference is a position in heap
    rc_pc,              \* position of the control flow of run_corrections
    original,           \* the molecule the caller holds, as it was before the call
    ligs_arg,           \* the ligs the caller passes to run_batch (references)
    lig_arg,            \* parameter lig (a reference)
    lig_coord,          \* parameter lig_coord
    ligs_coords_pred_untuned,   \* parameter ligs_coords_pred_untuned
    kabsch,             \* how rigid_transform_Kabsch_3D ends for these point sets
    lig_input, lig_equibind, coords_pred, rotable_bonds, new_dihedrals,
    fitted,             \* the arguments of the calls of get_dihedral_vonMises
    optimized_mol, coords_pred_optimized,
    atom,               \* i of the loop that sets the aligned positions
    returned            \* the reference run_corrections returns

frame == <<heap, rc_pc, original, ligs_arg, lig_arg, lig_coord, ligs_coords_pred_untuned,
           kabsch, lig_input, lig_equibind, coords_pred, rotable_bonds, new_dihedrals,
           fitted, optimized_mol, coords_pred_optimized, atom, returned>>

\* the names of run_corrections before anything is bound to them
FrameLocalsUnbound ==
    /\ lig_arg = 0 /\ lig_input = 0 /\ lig_equibind = 0 /\ optimized_mol = 0 /\ returned = 0
    /\ coords_pred = <<>> /\ rotable_bonds = <<>> /\ new_dihedrals = <<>> /\ fitted = <<>>
    /\ coords_pred_optimized = <<>>
    /\ atom = 0

\* no call of run_corrections is followed
FrameIdle ==
    /\ heap = <<>>
    /\ rc_pc = "idle"
    /\ original = None
    /\ ligs_arg = <<>>
    /\ lig_coord = <<>> /\ ligs_coords_pred_untuned = <<>>
    /\ kabsch = "ok"
    /\ FrameLocalsUnbound

vars == <<dataset, model, run_corrections, pc, pos, batch, path, k, attempted,
          out_ligs, out_lig_coords, predictions, confidence_scores, successes, failures,
          opt_mols, output_sdf, success_txt, failed_txt, confidence_data, confidence_csv,
          raised, session, frame, downstream>>

locals == <<out_ligs, out_lig_coords, predictions, confidence_scores, successes, failures>>
files == <<output_sdf, success_txt, failed_txt, confidence_data, confidence_csv>>
inputs == <<dataset, model, run_corrections>>

Init ==
    /\ dataset \in [1..NumLigs -> Ligs]
    /\ model \in Models
    /\ run_corrections \in BOOLEAN
    /\ pc = "loop"
    /\ pos = 0
    /\ batch = <<>>
    /\ path = "none"
    /\ k = 0
    /\ attempted = <<>>
    /\ out_ligs = <<>> /\ out_lig_coords = <<>> /\ predictions = <<>>
    /\ confidence_scores = <<>> /\ successes = <<>> /\ failures = <<>>
    /\ opt_mols = <<>>
    /\ output_sdf = <<>> /\ success_txt = <<>> /\ failed_txt = <<>> /\ confidence_data = <<>>
    /\ confidence_csv = None
    /\ raised = "none"
    /\ previous_work = None
    /\ run = 1
    /\ logs = LogFiles
    /\ FrameIdle
    /\ DownstreamIdle

\* an exception leaves write_while_inferring: nothing catches it there
Propagate(e) ==
    /\ raised' = e
    /\ pc' = "raised"

----------------------------------------------------------------------------
(* write_while_inferring: for batch in dataloader *)

\* Ligands(..., skips = previous_work): whether the dataset hands out the
\* ligand of index i as (i, "Skipped") instead of loading it
Skipped(i) == previous_work.some /\ i \in previous_work.val

\* the dataloader hands out the next BatchSize samples with their true indices;
\* the skipped ones go to failed_in_batch and are not logged, the others form
\* the group, and write_while_inferring goes on to the next batch when none
\* is left (ligs is None); every ligand that is not skipped was loaded
NextBatch ==
    /\ pc = "loop"
    /\ pos < NumLigs
    /\ LET last == Min(pos + BatchSize, NumLigs)
           samples == [j \in 1..(last - pos) |->
                          [true_index |-> pos + j - 1, lig |-> dataset[pos + j]]]
           clean_batch == SelectSeq(samples, LAMBDA sample : ~Skipped(sample.true_index))
       IN  /\ batch' = clean_batch
           /\ pos' = last
           /\ pc' = IF clean_batch = <<>> THEN "loop" ELSE "run_batch"
    /\ path' = "none"
    /\ k' = 0
    /\ attempted' = <<>>
    /\ out_ligs' = <<>> /\ out_lig_coords' = <<>> /\ predictions' = <<>>
    /\ confidence_scores' = <<>> /\ successes' = <<>> /\ failures' = <<>>
    /\ opt_mols' = <<>>
    /\ UNCHANGED <<downstream, frame, session, inputs, files, raised>>

----------------------------------------------------------------------------
(* run_batch *)

\* variant: the handler of the batched call names another exception type
CatchesBatchErrorOtherType(e) == e = "RuntimeError"

\* "except AssertionError" around the batched call
CatchesBatchError(e) == e = "AssertionError"

\* variant: the fallback loop catches AssertionError only
CatchesItemErrorNarrow(e) == e = "AssertionError"

\* "except Exception" around an individual call
CatchesItemError(e) == e \in Exceptions

\* names of the batched path
BatchNames(entries) == [j \in 1..Len(entries) |-> LigName(entries[j].lig, entries[j].true_index)]

\* variant: the records are listed last item first
BatchSuccessesReversed(entries, scores) ==
    LET z == Zip3([j \in 1..Len(entries) |-> entries[j].true_index], BatchNames(entries), scores)
    IN  [j \in 1..Len(z) |-> z[Len(z) + 1 - j]]

\* successes of the batched path: list(zip(true_indices, names, confidence_scores))
BatchSuccesses(entries, scores) ==
    Zip3([j \in 1..Len(entries) |-> entries[j].true_index], BatchNames(entries), scores)

\* the try block of run_batch: one model call on the whole group
BatchedCall ==
    /\ pc = "run_batch"
    /\ \E outcome \in CallOutcomes(batch) :
         IF outcome = "ok"
         THEN LET u == Unpack(ModelOutput(model, batch))
                  scores == ConfidenceScoresBatched(u)
              IN  /\ predictions' = u.predictions
                  /\ confidence_scores' = scores
                  /\ out_ligs' = [j \in 1..Len(batch) |-> batch[j].true_index]
                  /\ out_lig_coords' = [j \in 1..Len(batch) |-> batch[j].true_index]
                  /\ successes' = BatchSuccesses(batch, scores)
                  /\ failures' = <<>>
                  /\ path' = "batched"
                  /\ pc' = "return"
                  /\ UNCHANGED <<k, raised>>
         ELSE IF CatchesBatchError(outcome)
         THEN /\ path' = "fallback"
              /\ pc' = "fallback"
              /\ k' = 1
              /\ UNCHANGED <<locals, raised>>
         ELSE /\ Propagate(outcome)
              /\ UNCHANGED <<locals, path, k>>
    /\ UNCHANGED <<downstream, frame, session, inputs, pos, batch, attempted, opt_mols, files>>

\* variant: the record carries the position in the group, not the true index
FailureRecordByPosition(entry) ==
    <<entry.true_index % BatchSize, LigName(entry.lig, entry.true_index)>>

\* record appended to failures by the "except Exception" of the fallback loop
FailureRecord(entry) == <<entry.true_index, LigName(entry.lig, entry.true_index)>>

\* record appended to successes by the fallback loop
SuccessRecord(entry, confidence) ==
    <<entry.true_index, LigName(entry.lig, entry.true_index), confidence>>

\* variant: the ligand is appended to out_ligs before the model is called
IndividualCallAppendsFirst ==
    /\ pc = "fallback"
    /\ k <= Len(batch)
    /\ LET entry == batch[k]
       IN  \E outcome \in CallOutcomes(<<entry>>) :
             LET r == IF outcome = "ok" THEN IndividualResult(ModelOutput(model, <<entry>>))
                      ELSE Raise
                 e == IF outcome = "ok" THEN "TypeError" ELSE outcome
             IN  /\ out_ligs' = Append(out_ligs, entry.true_index)
                 /\ IF r.ok
                    THEN /\ out_lig_coords' = Append(out_lig_coords, entry.true_index)
                         /\ predictions' = Append(predictions, r.val.prediction)
                         /\ confidence_scores' = Append(confidence_scores, r.val.confidence)
                         /\ successes' = Append(successes, SuccessRecord(entry, r.val.confidence))
                         /\ k' = k + 1
                         /\ UNCHANGED <<failures, pc, raised>>
                    ELSE /\ failures' = Append(failures, FailureRecord(entry))
                         /\ k' = k + 1
                         /\ UNCHANGED <<out_lig_coords, predictions, confidence_scores,
                                        successes, pc, raised>>
    /\ attempted' = Append(attempted, batch[k].true_index)
    /\ UNCHANGED <<downstream, frame, session, inputs, pos, batch, path, opt_mols, files>>

\* one iteration of the fallback loop: one model call on one item
IndividualCall ==
    /\ pc = "fallback"
    /\ k <= Len(batch)
    /\ LET entry == batch[k]
       IN  \E outcome \in CallOutcomes(<<entry>>) :
             LET r == IF outcome = "ok" THEN IndividualResult(ModelOutput(model, <<entry>>))
                      ELSE Raise
                 e == IF outcome = "ok" THEN "TypeError" ELSE outcome
             IN  IF r.ok
                 THEN /\ out_ligs' = Append(out_ligs, entry.true_index)
                      /\ out_lig_coords' = Append(out_lig_coords, entry.true_index)
                      /\ predictions' = Append(predictions, r.val.prediction)
                      /\ confidence_scores' = Append(confidence_scores, r.val.confidence)
                      /\ successes' = Append(successes, SuccessRecord(entry, r.val.confidence))
                      /\ k' = k + 1
                      /\ UNCHANGED <<failures, pc, raised>>
                 ELSE IF CatchesItemError(e)
                 THEN /\ failures' = Append(failures, FailureRecord(entry))
                      /\ k' = k + 1
                      /\ UNCHANGED <<out_ligs, out_lig_coords, predictions, confidence_scores,
                                     successes, pc, raised>>
                 ELSE /\ Propagate(e)
                      /\ UNCHANGED <<locals, k>>
    /\ attempted' = Append(attempted, batch[k].true_index)
    /\ UNCHANGED <<downstream, frame, session, inputs, pos, batch, path, opt_mols, files>>

\* the final assert of run_batch and its return
RunBatchReturn ==
    /\ \/ pc = "return"
       \/ pc = "fallback" /\ k > Len(batch)
    /\ IF Len(predictions) = Len(out_ligs) /\ Len(out_ligs) = Len(confidence_scores)
       THEN /\ pc' = "corrections"
            /\ k' = 1
            /\ UNCHANGED raised
       ELSE /\ Propagate("AssertionError")
            /\ UNCHANGED k
    /\ UNCHANGED <<downstream, frame, session, inputs, pos, batch, path, attempted, locals, opt_mols, files>>

----------------------------------------------------------------------------
(* run_corrections, statement by statement.  A molecule is a chain of      *)
(* atoms; its conformer gives every atom one coordinate.  The dihedral of  *)
(* a rotatable bond (a, b, c, d) is the offset of d from c; setting it     *)
(* moves d and every atom behind d.                                        *)

\* largest number of atoms of a molecule
MaxAtoms == 5

Max(a, b) == IF a >= b THEN a ELSE b

\* a molecule object: name property, atoms, bonds, coordinates of its conformer
Mol(n) == [name |-> Some(<<"m">>),
           atoms |-> [j \in 1..n |-> IF n > 1 /\ j = n THEN "H" ELSE "C"],
           bonds |-> {<<j, j + 1>> : j \in 1..(n - 1)},
           pos |-> [j \in 1..n |-> 0]]

\* the molecules corrected: a single atom, chains without a rotatable bond,
\* chains with one and more rotatable bonds
Mols == {Mol(n) : n \in 1..MaxAtoms}

\* the input coordinates of a molecule of n atoms
LigCoords(n) == {[j \in 1..n |-> j]}

\* the coordinates the model predicts for it: the input moved as a whole,
\* stretched, bent
Predictions(n) == {[j \in 1..n |-> j + 3], [j \in 1..n |-> 2 * j], [j \in 1..n |-> j * j]}

\* how the rigid alignment can end: it succeeds, its SVD does not converge,
\* it raises something else
KabschOutcomes == {"ok", "LinAlgError", "ValueError"}

\* variant: the copy is made without its hydrogens
DeepcopyHeavyAtoms(h, ref) ==
    LET m == h[ref]
        keep == SelectSeq([j \in 1..Len(m.atoms) |-> j], LAMBDA j : m.atoms[j] # "H")
    IN  [heap |-> Append(h, [name |-> m.name,
                             atoms |-> [j \in 1..Len(keep) |-> m.atoms[keep[j]]],
                             bonds |-> {b \in m.bonds : m.atoms[b[1]] # "H" /\ m.atoms[b[2]] # "H"},
                             pos |-> [j \in 1..Len(keep) |-> m.pos[keep[j]]]]),
         ref |-> Len(h) + 1]

\* variant: no copy is made, the new name is bound to the same object
DeepcopyShares(h, ref) == [heap |-> h, ref |-> ref]

\* deepcopy(lig): a new object equal to the one copied
Deepcopy(h, ref) == [heap |-> Append(h, h[ref]), ref |-> Len(h) + 1]

\* conf.SetAtomPosition(i, ...) for i in range(mol.GetNumAtoms())
SetAtomPositions(h, ref, coords) ==
    [h EXCEPT ![ref].pos = [j \in 1..Len(h[ref].atoms) |-> coords[j]]]

\* get_torsions([mol]): the rotatable bonds, each with one neighbour on
\* either side
GetTorsions(mol) ==
    LET n == Len(mol.atoms)
    IN  [j \in 1..Max(0, n - 3) |-> <<j, j + 1, j + 2, j + 3>>]

\* get_dihedral_vonMises(mol, conf, r, Z): the dihedral of bond r that best
\* reproduces the point cloud Z
GetDihedralVonMises(conf_pos, r, Z) == Z[r[4]] - Z[r[3]]

\* SetDihedralRad(conf, a, b, c, d, value)
SetDihedral(conf_pos, r, value) ==
    LET delta == value - (conf_pos[r[4]] - conf_pos[r[3]])
    IN  [j \in 1..Len(conf_pos) |-> IF j >= r[4] THEN conf_pos[j] + delta ELSE conf_pos[j]]

RECURSIVE SetDihedrals(_, _, _, _)
SetDihedrals(conf_pos, values, bonds, idx) ==
    IF idx > Len(bonds) THEN conf_pos
    ELSE SetDihedrals(SetDihedral(conf_pos, bonds[idx], values[idx]), values, bonds, idx + 1)

\* apply_changes(mol, values, rotable_bonds): a new molecule, the copy of mol
\* with every dihedral set
ApplyChanges(h, ref, values, bonds) ==
    [heap |-> Append(h, [h[ref] EXCEPT !.pos = SetDihedrals(h[ref].pos, values, bonds, 1)]),
     ref |-> Len(h) + 1]

\* rigid_transform_Kabsch_3D(A, B): the rotation and translation that move
\* the points A onto the points B with the least squared error
RigidTransformKabsch(A, B) ==
    [R |-> 1, t |-> (SumSeq(B) - SumSeq(A)) \div Len(A)]

\* variant: the fitted dihedrals are applied to the conformer that holds the
\* predicted coordinates
ConformerOptimizedPredicted == lig_equibind

\* the conformer the fitted dihedrals are applied to
ConformerOptimized == lig_input


----------------------------------------------------------------------------
(* run_corrections and the correction loop of write_while_inferring *)

\* how the geometry of run_corrections can end: the alignment succeeds, the
\* SVD of the alignment does not converge, or something else raises
CorrectionOutcomes == {"ok", "svd", "error"}

\* variant: the handler is for another exception
CatchesAlignmentErrorOtherType(e) == e = "ValueError"

\* "except np.linalg.LinAlgError" around the rigid alignment
CatchesAlignmentError(e) == e = "LinAlgError"

\* run_corrections(lig, lig_coord, prediction): the corrected molecule, or
\* the exception that leaves it
RunCorrections(lig, outcome) ==
    IF outcome = "ok" THEN Ret([mol |-> lig, pose |-> "aligned"])
    ELSE IF outcome = "svd" /\ CatchesAlignmentError("LinAlgError")
    THEN Ret([mol |-> lig, pose |-> "optimized"])
    ELSE Raise

\* variant: nothing catches the exception of a correction
CorrectRaises ==
    /\ pc = "corrections"
    /\ k <= Min(Len(out_ligs), Min(Len(out_lig_coords), Len(predictions)))
    /\ IF run_corrections
       THEN \E outcome \in CorrectionOutcomes :
              LET r == RunCorrections(out_ligs[k], outcome)
              IN  IF r.ok
                  THEN /\ opt_mols' = Append(opt_mols, r.val)
                       /\ k' = k + 1
                       /\ UNCHANGED <<pc, raised>>
                  ELSE /\ Propagate("ValueError")
                       /\ UNCHANGED <<opt_mols, k>>
       ELSE /\ opt_mols' = Append(opt_mols, [mol |-> out_ligs[k], pose |-> "input"])
            /\ k' = k + 1
            /\ UNCHANGED <<pc, raised>>
    /\ UNCHANGED <<downstream, frame, session, inputs, pos, batch, path, attempted, locals, files>>

\* variant: when the correction raises, nothing is appended to opt_mols
CorrectDropsOnError ==
    /\ pc = "corrections"
    /\ k <= Min(Len(out_ligs), Min(Len(out_lig_coords), Len(predictions)))
    /\ IF run_corrections
       THEN \E outcome \in CorrectionOutcomes :
              LET r == RunCorrections(out_ligs[k], outcome)
              IN  opt_mols' = IF r.ok THEN Append(opt_mols, r.val) ELSE opt_mols
       ELSE opt_mols' = Append(opt_mols, [mol |-> out_ligs[k], pose |-> "input"])
    /\ k' = k + 1
    /\ UNCHANGED <<downstream, frame, session, inputs, pc, pos, batch, path, attempted, locals, files, raised>>

\* one iteration of the loop over zip(out_ligs, out_lig_coords, predictions):
\* the corrected molecule, or lig itself when corrections are off or raise
Correct ==
    /\ pc = "corrections"
    /\ k <= Min(Len(out_ligs), Min(Len(out_lig_coords), Len(predictions)))
    /\ IF run_corrections
       THEN \E outcome \in CorrectionOutcomes :
              LET r == RunCorrections(out_ligs[k], outcome)
              IN  opt_mols' = Append(opt_mols, IF r.ok THEN r.val
                                               ELSE [mol |-> out_ligs[k], pose |-> "input"])
       ELSE opt_mols' = Append(opt_mols, [mol |-> out_ligs[k], pose |-> "input"])
    /\ k' = k + 1
    /\ UNCHANGED <<downstream, frame, session, inputs, pc, pos, batch, path, attempted, locals, files, raised>>

\* everything outside run_corrections
driver == <<downstream, session, inputs, pc, pos, batch, path, k, attempted, locals, opt_mols, files, raised>>

\* a call of run_corrections is about to be made for a molecule the caller
\* holds: one molecule, its input coordinates, a prediction
InitCorrections ==
    /\ dataset = [j \in 1..NumLigs |-> Lig(Some(<<"m">>), FALSE, GeoExact)]
    /\ model = [shape |-> "bare", len |-> 1, missing |-> "none",
                geom |-> [type |-> "float", numel |-> 1, val |-> 2]]
    /\ run_corrections = TRUE
    /\ pc = "loop" /\ pos = 0 /\ batch = <<>> /\ path = "none" /\ k = 0 /\ attempted = <<>>
    /\ out_ligs = <<>> /\ out_lig_coords = <<>> /\ predictions = <<>>
    /\ confidence_scores = <<>> /\ successes = <<>> /\ failures = <<>>
    /\ opt_mols = <<>>
    /\ output_sdf = <<>> /\ success_txt = <<>> /\ failed_txt = <<>> /\ confidence_data = <<>>
    /\ confidence_csv = None
    /\ raised = "none"
    /\ previous_work = None
    /\ run = 1
    /\ logs = LogFiles
    /\ \E n \in 1..MaxAtoms :
         /\ heap = <<Mol(n)>>
         /\ original = Some(Mol(n))
         /\ lig_coord \in LigCoords(n)
         /\ ligs_coords_pred_untuned \in Predictions(n)
    /\ ligs_arg = <<1>>
    /\ kabsch \in KabschOutcomes
    /\ rc_pc = "run_batch"
    /\ FrameLocalsUnbound
    /\ DownstreamIdle

\* run_batch hands the molecule on: out_ligs is ligs, or holds the lig of
\* every successful individual call; no molecule object is written to
RunBatchHandsOver ==
    /\ rc_pc = "run_batch"
    /\ lig_arg' = ligs_arg[1]
    /\ rc_pc' = "lig_input"
    /\ UNCHANGED <<driver, heap, original, ligs_arg, lig_coord, ligs_coords_pred_untuned, kabsch,
                   lig_input, lig_equibind, coords_pred, rotable_bonds, new_dihedrals, fitted,
                   optimized_mol, coords_pred_optimized, atom, returned>>

\* lig_input = deepcopy(lig), with the input coordinates
CopyInput ==
    /\ rc_pc = "lig_input"
    /\ LET c == Deepcopy(heap, lig_arg)
       IN  /\ lig_input' = c.ref
           /\ heap' = SetAtomPositions(c.heap, c.ref, lig_coord)
    /\ rc_pc' = "lig_equibind"
    /\ UNCHANGED <<driver, original, ligs_arg, lig_arg, lig_coord, ligs_coords_pred_untuned, kabsch,
                   lig_equibind, coords_pred, rotable_bonds, new_dihedrals, fitted,
                   optimized_mol, coords_pred_optimized, atom, returned>>

\* lig_equibind = deepcopy(lig), with the predicted coordinates;
\* coords_pred = lig_equibind.GetConformer().GetPositions()
CopyPrediction ==
    /\ rc_pc = "lig_equibind"
    /\ LET c == Deepcopy(heap, lig_arg)
           h == SetAtomPositions(c.heap, c.ref, ligs_coords_pred_untuned)
       IN  /\ lig_equibind' = c.ref
           /\ heap' = h
           /\ coords_pred' = h[c.ref].pos
    /\ rc_pc' = "torsions"
    /\ UNCHANGED <<driver, original, ligs_arg, lig_arg, lig_coord, ligs_coords_pred_untuned, kabsch,
                   lig_input, rotable_bonds, new_dihedrals, fitted,
                   optimized_mol, coords_pred_optimized, atom, returned>>

\* rotable_bonds = get_torsions([lig_input]); new_dihedrals = np.zeros(...)
Torsions ==
    /\ rc_pc = "torsions"
    /\ rotable_bonds' = GetTorsions(heap[lig_input])
    /\ new_dihedrals' = [j \in 1..Len(GetTorsions(heap[lig_input])) |-> 0]
    /\ rc_pc' = "fit"
    /\ UNCHANGED <<driver, heap, original, ligs_arg, lig_arg, lig_coord, ligs_coords_pred_untuned,
                   kabsch, lig_input, lig_equibind, coords_pred, fitted,
                   optimized_mol, coords_pred_optimized, atom, returned>>

\* one iteration of "for idx, r in enumerate(rotable_bonds)": Z_pt_cloud is
\* coords_pred
FitDihedral ==
    /\ rc_pc = "fit"
    /\ Len(fitted) < Len(rotable_bonds)
    /\ LET idx == Len(fitted) + 1
           r == rotable_bonds[idx]
       IN  /\ new_dihedrals' = [new_dihedrals EXCEPT
                                  ![idx] = GetDihedralVonMises(heap[lig_input].pos, r, coords_pred)]
           /\ fitted' = Append(fitted, [r |-> r, conf |-> heap[lig_input].pos,
                                        Z_pt_cloud |-> coords_pred])
    /\ UNCHANGED <<driver, heap, rc_pc, original, ligs_arg, lig_arg, lig_coord,
                   ligs_coords_pred_untuned, kabsch, lig_input, lig_equibind, coords_pred,
                   rotable_bonds, optimized_mol, coords_pred_optimized, atom, returned>>

\* optimized_mol = apply_changes(lig_input, new_dihedrals, rotable_bonds);
\* coords_pred_optimized = optimized_conf.GetPositions()
Optimize ==
    /\ rc_pc = "fit"
    /\ Len(fitted) = Len(rotable_bonds)
    /\ LET c == ApplyChanges(heap, ConformerOptimized, new_dihedrals, rotable_bonds)
       IN  /\ heap' = c.heap
           /\ optimized_mol' = c.ref
           /\ coords_pred_optimized' = c.heap[c.ref].pos
    /\ rc_pc' = "align"
    /\ UNCHANGED <<driver, original, ligs_arg, lig_arg, lig_coord, ligs_coords_pred_untuned, kabsch,
                   lig_input, lig_equibind, coords_pred, rotable_bonds, new_dihedrals, fitted,
                   atom, returned>>

\* R, t = rigid_transform_Kabsch_3D(...) and the aligned coordinates, or the
\* exception of the alignment: handled, or leaving run_corrections
Align ==
    /\ rc_pc = "align"
    /\ IF kabsch = "ok"
       THEN LET f == RigidTransformKabsch(coords_pred_optimized, coords_pred)
            IN  /\ coords_pred_optimized' = [j \in 1..Len(coords_pred_optimized) |->
                                                f.R * coords_pred_optimized[j] + f.t]
                /\ atom' = 1
                /\ rc_pc' = "set_positions"
       ELSE /\ rc_pc' = IF CatchesAlignmentError(kabsch) THEN "return" ELSE "raised"
            /\ UNCHANGED <<coords_pred_optimized, atom>>
    /\ UNCHANGED <<driver, heap, original, ligs_arg, lig_arg, lig_coord, ligs_coords_pred_untuned,
                   kabsch, lig_input, lig_equibind, coords_pred, rotable_bonds, new_dihedrals,
                   fitted, optimized_mol, returned>>

\* one iteration of "for i in range(optimized_mol.GetNumAtoms())"
SetAlignedPosition ==
    /\ rc_pc = "set_positions"
    /\ IF atom <= Len(heap[optimized_mol].atoms)
       THEN /\ heap' = [heap EXCEPT ![optimized_mol].pos[atom] = coords_pred_optimized[atom]]
            /\ atom' = atom + 1
            /\ UNCHANGED rc_pc
       ELSE /\ rc_pc' = "return"
            /\ UNCHANGED <<heap, atom>>
    /\ UNCHANGED <<driver, original, ligs_arg, lig_arg, lig_coord, ligs_coords_pred_untuned, kabsch,
                   lig_input, lig_equibind, coords_pred, rotable_bonds, new_dihedrals, fitted,
                   optimized_mol, coords_pred_optimized, returned>>

\* return optimized_mol
ReturnOptimized ==
    /\ rc_pc = "return"
    /\ returned' = optimized_mol
    /\ rc_pc' = "done"
    /\ UNCHANGED <<driver, heap, original, ligs_arg, lig_arg, lig_coord, ligs_coords_pred_untuned,
                   kabsch, lig_input, lig_equibind, coords_pred, rotable_bonds, new_dihedrals,
                   fitted, optimized_mol, coords_pred_optimized, atom>>

NextCorrections ==
    \/ RunBatchHandsOver
    \/ CopyInput
    \/ CopyPrediction
    \/ Torsions
    \/ FitDihedral
    \/ Optimize
    \/ Align
    \/ SetAlignedPosition
    \/ ReturnOptimized

SpecCorrections == InitCorrections /\ [][NextCorrections]_vars

----------------------------------------------------------------------------
(* write_while_inferring: writing the records of the group *)

LowerChar(c) == CASE c = "S" -> "s" [] c = "D" -> "d" [] c = "F" -> "f" [] c = "M" -> "m"
                  [] OTHER -> c

Lower(s) == [j \in 1..Len(s) |-> LowerChar(s[j])]

EndsWith(s, suffix) ==
    Len(s) >= Len(suffix) /\ SubSeq(s, Len(s) - Len(suffix) + 1, Len(s)) = suffix

\* if not ligand_name.lower().endswith('.sdf'): filename = f"{ligand_name}.sdf"
Filename(ligand_name) ==
    IF ~EndsWith(Lower(ligand_name), <<".", "s", "d", "f">>)
    THEN ligand_name \o <<".", "s", "d", "f">>
    ELSE ligand_name

\* variant: the name is written first
LogLineNameFirst(record) == record[2] \o <<" ">> \o IndexStr(record[1])

\* f"{record[0]} {record[1]}", the line of success.txt and failed.txt
LogLine(record) == IndexStr(record[1]) \o <<" ">> \o record[2]

SuccessRow(success, conf_score) ==
    [filename |-> Filename(success[2]), confidence_score |-> Some(conf_score), status |-> "success"]

FailedRow(failure) ==
    [filename |-> Filename(failure[2]), confidence_score |-> None, status |-> "failed"]

\* the two writing loops: zip(opt_mols, successes, confidence_scores), then failures
WriteBatch ==
    /\ pc = "corrections"
    /\ k > Min(Len(out_ligs), Min(Len(out_lig_coords), Len(predictions)))
    /\ LET n == Min(Len(opt_mols), Min(Len(successes), Len(confidence_scores)))
       IN  /\ output_sdf' = output_sdf \o SubSeq(opt_mols, 1, n)
           /\ success_txt' = success_txt \o [j \in 1..n |-> LogLine(successes[j])]
           /\ failed_txt' = failed_txt \o [j \in 1..Len(failures) |-> LogLine(failures[j])]
           /\ confidence_data' = confidence_data
                  \o [j \in 1..n |-> SuccessRow(successes[j], confidence_scores[j])]
                  \o [j \in 1..Len(failures) |-> FailedRow(failures[j])]
    /\ pc' = "loop"
    /\ UNCHANGED <<downstream, frame, session, inputs, pos, batch, path, k, attempted, locals, opt_mols, confidence_csv, raised>>

\* after the loop: the files are closed and confidence_scores.csv is saved
SaveCsv ==
    /\ pc = "loop"
    /\ pos = NumLigs
    /\ confidence_csv' = IF confidence_data # <<>> THEN Some(confidence_data) ELSE confidence_csv
    /\ pc' = "done"
    /\ UNCHANGED <<downstream, frame, session, inputs, pos, batch, path, k, attempted, locals, opt_mols,
                   output_sdf, success_txt, failed_txt, confidence_data, raised>>

Next ==
    \/ NextBatch
    \/ BatchedCall
    \/ IndividualCall
    \/ RunBatchReturn
    \/ Correct
    \/ WriteBatch
    \/ SaveCsv

Spec == Init /\ [][Next]_vars

----------------------------------------------------------------------------
(* main: resuming on an output directory that holds the logs of a run *)

\* tup.split(" ")[0]: the characters before the first space
RECURSIVE FirstToken(_)
FirstToken(line) ==
    IF line = <<>> \/ Head(line) = " " THEN <<>>
    ELSE <<Head(line)>> \o FirstToken(Tail(line))

DigitVal(c) == CHOOSE d \in 0..9 : Digits[d + 1] = c

IsDigit(c) == \E d \in 0..9 : Digits[d + 1] = c

\* int(token): surrounding whitespace is dropped, decimal digits are read,
\* anything else raises ValueError
RECURSIVE DigitsVal(_)
DigitsVal(s) == IF s = <<>> THEN 0 ELSE 10 * DigitsVal(SubSeq(s, 1, Len(s) - 1)) + DigitVal(s[Len(s)])

ParseInt(token) ==
    LET t == SelectSeq(token, LAMBDA c : c # "\n")
    IN  IF t # <<>> /\ \A j \in 1..Len(t) : IsDigit(t[j]) THEN Ret(DigitsVal(t)) ELSE Raise

\* readlines() of a log: every line ends with its newline
ReadLines(log) == [j \in 1..Len(log) |-> log[j] \o <<"\n">>]

\* previous_work = set(map(lambda tup: int(tup.split(" ")[0]), previous_work))
PreviousWork(lines) ==
    IF \A j \in 1..Len(lines) : ParseInt(FirstToken(lines[j])).ok
    THEN Ret({ParseInt(FirstToken(lines[j])).val : j \in 1..Len(lines)})
    ELSE Raise

\* the run is interrupted between two groups: the with block closes the
\* files, confidence_scores.csv is not written
Interrupt ==
    /\ pc = "loop"
    /\ run = 1
    /\ pc' = "interrupted"
    /\ UNCHANGED <<downstream, frame, session, inputs, pos, batch, path, k, attempted, locals, opt_mols,
                   files, raised>>

\* os.path.exists(success_path) and os.path.exists(failed_path) and
\* args.skip_in_output, with skip_in_output set
ReadsLogs(existing) == "success.txt" \in existing /\ "failed.txt" \in existing

\* main is run again on the same input and output directory after an
\* interrupted or a completed run, with skip_in_output (the default): the logs
\* are read when both exist, the dataset skips their indices, the files are
\* opened for appending, which creates a missing log, and confidence_data is
\* empty
Resume ==
    /\ pc \in {"interrupted", "done"}
    /\ run = 1
    /\ run' = 2
    /\ LET work == PreviousWork(ReadLines(success_txt) \o ReadLines(failed_txt))
       IN  IF ReadsLogs(logs)
           THEN IF work.ok
                THEN /\ previous_work' = Some(work.val)
                     /\ pc' = "loop"
                     /\ raised' = "none"
                     /\ logs' = LogFiles
                ELSE /\ previous_work' = None
                     /\ pc' = "raised"
                     /\ raised' = "ValueError"
                     /\ logs' = logs
           ELSE /\ previous_work' = None
                /\ pc' = "loop"
                /\ raised' = "none"
                /\ logs' = LogFiles
    /\ pos' = 0
    /\ batch' = <<>>
    /\ path' = "none"
    /\ k' = 0
    /\ attempted' = <<>>
    /\ out_ligs' = <<>> /\ out_lig_coords' = <<>> /\ predictions' = <<>>
    /\ confidence_scores' = <<>> /\ successes' = <<>> /\ failures' = <<>>
    /\ opt_mols' = <<>>
    /\ confidence_data' = <<>>
    /\ UNCHANGED <<downstream, frame, inputs, output_sdf, success_txt, failed_txt, confidence_csv>>

\* a model that returns six elements, none of them None
FullModel == [shape |-> "full", len |-> 6, missing |-> "none",
              geom |-> [type |-> "float", numel |-> 1, val |-> 2]]

\* a first run without corrections, which may be interrupted, and a second run
InitResume ==
    /\ Init
    /\ model = FullModel
    /\ ~run_corrections

NextResume ==
    \/ Next
    \/ Interrupt
    \/ Resume

SpecResume == InitResume /\ [][NextResume]_vars

\* between two runs one of the two logs is removed from the output directory
LoseLog ==
    /\ pc \in {"interrupted", "done"}
    /\ run = 1
    /\ logs = LogFiles
    /\ \E f \in LogFiles :
         /\ logs' = logs \ {f}
         /\ success_txt' = IF f = "success.txt" THEN <<>> ELSE success_txt
         /\ failed_txt' = IF f = "failed.txt" THEN <<>> ELSE failed_txt
    /\ UNCHANGED <<downstream, frame, previous_work, run, inputs, pc, pos, batch, path, k, attempted,
                   locals, opt_mols, output_sdf, confidence_data, confidence_csv, raised>>

NextRuns ==
    \/ NextResume
    \/ LoseLog

\* runs of main on one output directory, complete or interrupted, with both
\* logs or one of them at the start of the second run
SpecRuns == InitResume /\ [][NextRuns]_vars

\* largest original index of a logged record
MaxIndex == 12

\* name properties of logged ligands: plain, holding a space, starting with
\* a space, a number, blank, absent
LogNames == {Some(<<"m">>), Some(<<"m", " ", "m">>), Some(<<" ", "m">>), Some(<<"1", "2">>),
             Some(<<" ">>), None}

\* run_batch has returned from the fallback for a group of two ligands of a
\* large input set, one success and one failure, and the correction loop is
\* over: the records of the group are about to be written
InitLogs ==
    /\ dataset = [j \in 1..NumLigs |-> Lig(Some(<<"m">>), FALSE, GeoExact)]
    /\ model = FullModel
    /\ run_corrections = FALSE
    /\ \E i1, i2 \in 0..MaxIndex : \E n1, n2 \in LogNames :
         LET lig1 == Lig(n1, FALSE, GeoExact)
             lig2 == Lig(n2, TRUE, GeoExact)
         IN  /\ i1 < i2
             /\ batch = <<[true_index |-> i1, lig |-> lig1], [true_index |-> i2, lig |-> lig2]>>
             /\ attempted = <<i1, i2>>
             /\ out_ligs = <<i1>> /\ out_lig_coords = <<i1>> /\ predictions = <<i1>>
             /\ confidence_scores = <<-2>>
             /\ successes = <<SuccessRecord(batch[1], -2)>>
             /\ failures = <<FailureRecord(batch[2])>>
             /\ opt_mols = <<[mol |-> i1, pose |-> "input"]>>
    /\ pc = "corrections" /\ pos = NumLigs /\ path = "fallback" /\ k = 2
    /\ output_sdf = <<>> /\ success_txt = <<>> /\ failed_txt = <<>> /\ confidence_data = <<>>
    /\ confidence_csv = None
    /\ raised = "none"
    /\ previous_work = None
    /\ run = 1
    /\ logs = LogFiles
    /\ FrameIdle
    /\ DownstreamIdle

NextLogs ==
    \/ WriteBatch
    \/ SaveCsv
    \/ Resume

SpecLogs == InitLogs /\ [][NextLogs]_vars

----------------------------------------------------------------------------
(* The output directory of a finished inference run, and the programs that
   read it: process_equibind_delta.py and post_processing.py *)

\* name properties of the ligands of the finished run: plain, absent, and one
\* that already ends in .sdf
DoneNames == {Some(<<"m">>), None, Some(<<"m", ".", "s", "d", "f">>)}

\* the true indices of s, in increasing order
Ascending(s) == SelectSeq([j \in 1..NumLigs |-> j - 1], LAMBDA i : i \in s)

DoneEntry(i) == [true_index |-> i, lig |-> dataset[i + 1]]

\* confidence of a ligand the model processes
DoneConfidence(i) == ConfidenceScoresBatched(Unpack(ModelOutput(FullModel, <<DoneEntry(i)>>)))[1]

\* the rows of confidence_data, group after group of the dataloader: the
\* successes of a group, then its failures
RECURSIVE DoneRows(_, _)
DoneRows(ok, from) ==
    IF from >= NumLigs THEN <<>>
    ELSE LET group == from..(Min(from + BatchSize, NumLigs) - 1)
             won == Ascending(ok \cap group)
             lost == Ascending(group \ ok)
         IN  [j \in 1..Len(won) |-> SuccessRow(SuccessRecord(DoneEntry(won[j]), 0),
                                               DoneConfidence(won[j]))]
             \o [j \in 1..Len(lost) |-> FailedRow(FailureRecord(DoneEntry(lost[j])))]
             \o DoneRows(ok, from + BatchSize)

\* the directory a first run of main leaves when the ligands of ok succeeded
\* and the others failed in their individual model call; of the logs, those
\* of existing are still there when the directory is read
DoneDirectory(ok, existing) ==
    LET won == Ascending(ok)
        lost == Ascending((0..(NumLigs - 1)) \ ok)
    IN  /\ output_sdf = [j \in 1..Len(won) |-> [mol |-> won[j], pose |-> "input"]]
        /\ success_txt = IF "success.txt" \in existing
                         THEN [j \in 1..Len(won) |->
                                  LogLine(SuccessRecord(DoneEntry(won[j]), DoneConfidence(won[j])))]
                         ELSE <<>>
        /\ failed_txt = IF "failed.txt" \in existing
                        THEN [j \in 1..Len(lost) |-> LogLine(FailureRecord(DoneEntry(lost[j])))]
                        ELSE <<>>
        /\ confidence_data = DoneRows(ok, 0)
        /\ confidence_csv = Some(confidence_data)
        /\ logs = existing

\* the inference has ended and left its output directory; the reading program
\* has not started
InitDone ==
    /\ dataset \in [1..NumLigs -> {Lig(name, FALSE, GeoExact) : name \in DoneNames}]
    /\ model = FullModel
    /\ run_corrections = FALSE
    /\ pc = "done" /\ pos = NumLigs /\ batch = <<>> /\ path = "none" /\ k = 0
    /\ attempted = <<>>
    /\ out_ligs = <<>> /\ out_lig_coords = <<>> /\ predictions = <<>>
    /\ confidence_scores = <<>> /\ successes = <<>> /\ failures = <<>>
    /\ opt_mols = <<>>
    /\ raised = "none"
    /\ previous_work = None
    /\ run = 1
    /\ FrameIdle
    /\ \E ok \in SUBSET (0..(NumLigs - 1)) : \E existing \in {LogFiles, {"failed.txt"}} :
         DoneDirectory(ok, existing)
    /\ valid \in [1..Len(output_sdf) -> BOOLEAN]
    /\ relative \in BOOLEAN
    /\ ligand_files = <<>>
    /\ tool = <<>>
    /\ results = <<>>
    /\ cwd = "start"
    /\ results_csv = None
    /\ ranked_csv = None
    /\ copied_files = None
    /\ dest_dir = {}

inference == <<inputs, pc, pos, batch, path, k, attempted, locals, opt_mols, files, raised,
               session, frame>>

\* str.isdigit()
IsDigitStr(s) == s # <<>> /\ \A j \in 1..Len(s) : IsDigit(s[j])

\* read_success_file: the lines that are digits only once stripped, as numbers
ReadSuccessFile(lines) ==
    LET kept == SelectSeq(lines, LAMBDA line : IsDigitStr(Strip(line)))
    IN  [j \in 1..Len(kept) |-> DigitsVal(Strip(kept[j]))]

\* process_equibind_output, up to the call of split_multiligand_sdf:
\* success.txt is read if it exists
ReadSuccess ==
    /\ dpc = "read"
    /\ success_ids' = IF "success.txt" \in logs THEN Some(ReadSuccessFile(success_txt)) ELSE None
    /\ dpc' = "split"
    /\ UNCHANGED <<inference, valid, relative, ligand_files, tool, results, cwd, results_csv,
                   ranked_csv, copied_files, dest_dir>>

\* i in success_ids
InIds(i, ids) == \E j \in 1..Len(ids) : ids[j] = i

\* split_multiligand_sdf: enumerate(suppl) numbers the molecules of output.sdf
\* from 0; the molecule at position i is written to ligand_<i>.pdb when i is
\* among the ids and the molecule passes is_valid_molecule and the conversion
SplitMultiligandSdf(sdf, ids, passes) ==
    LET positions == SelectSeq([j \in 1..Len(sdf) |-> j - 1],
                               LAMBDA i : (ids.some => InIds(i, ids.val)) /\ passes[i + 1])
    IN  [j \in 1..Len(positions) |->
            <<positions[j], [ligand |-> positions[j], holds |-> sdf[positions[j] + 1].mol]>>]

\* process_equibind_output: the ligand files are made, and without any the
\* function returns False
Split ==
    /\ dpc = "split"
    /\ ligand_files' = SplitMultiligandSdf(output_sdf, success_ids, valid)
    /\ dpc' = IF ligand_files' = <<>> THEN "returned False" ELSE "score"
    /\ UNCHANGED <<inference, valid, relative, success_ids, tool, results, cwd, results_csv,
                   ranked_csv, copied_files, dest_dir>>

\* what one run of runXGB.py on a ligand file comes to in run_delta_linf9
ToolOutcomes == {"score", "unparsable", "nonzero", "timeout", "run raises", "float raises"}

\* the XGB scores
Scores == {1, 2}

\* os.path.abspath names the file that was given: the path is absolute, or
\* the working directory is still the one the program was started in
PathsResolve == ~relative \/ cwd = "start"

\* run_delta_linf9: the score, None without one, and the working directory
\* the call leaves. The directory is changed back after subprocess.run
\* returns; TimeoutExpired and other exceptions of subprocess.run go to the
\* handlers, float() raises after the change back
RunDeltaLinf9(outcome, score) ==
    LET happens == IF outcome = "score" /\ ~PathsResolve THEN "nonzero" ELSE outcome
    IN  [xgb_score |-> IF happens = "score" THEN Some(score) ELSE None,
         cwd |-> IF happens \in {"timeout", "run raises"} THEN "deltalinf9" ELSE cwd]

\* one turn of the loop over ligand_files
Score ==
    /\ dpc = "score"
    /\ Len(results) < Len(ligand_files)
    /\ \E outcome \in ToolOutcomes : \E score \in Scores :
         LET file == ligand_files[Len(results) + 1]
             r == RunDeltaLinf9(outcome, score)
         IN  /\ tool' = Append(tool, IF outcome = "score" THEN Some(score) ELSE None)
             /\ cwd' = r.cwd
             /\ results' = Append(results,
                                  [ligand_id |-> file[1], ligand_file |-> file[2],
                                   xgb_score |-> r.xgb_score,
                                   status |-> IF r.xgb_score # None THEN "SUCCESS" ELSE "FAILED"])
    /\ UNCHANGED <<inference, dpc, valid, relative, success_ids, ligand_files, results_csv,
                   ranked_csv, copied_files, dest_dir>>

\* rows is ordered by XGB score, highest first
Descending(rows) == \A a, b \in 1..Len(rows) : a < b => rows[a].xgb_score.val >= rows[b].xgb_score.val

\* the loop is over: delta_linf9_results.csv and ligands_ranked.csv are
\* written under output_dir; with a relative output_dir and another working
\* directory the directory of the files does not exist and to_csv raises
Save ==
    /\ dpc = "score"
    /\ Len(results) = Len(ligand_files)
    /\ IF relative /\ cwd # "start"
       THEN /\ dpc' = "raised"
            /\ UNCHANGED <<results_csv, ranked_csv>>
       ELSE /\ dpc' = "returned True"
            /\ results_csv' = Some(results)
            /\ LET successful_df == SelectSeq(results, LAMBDA row : row.status = "SUCCESS")
               IN  \E p \in Permutations(1..Len(successful_df)) :
                     LET sorted == [j \in 1..Len(successful_df) |-> successful_df[p[j]]]
                     IN  /\ Descending(sorted)
                         /\ ranked_csv' = Some(sorted)
    /\ UNCHANGED <<inference, valid, relative, success_ids, ligand_files, tool, results, cwd,
                   copied_files, dest_dir>>

\* process_equibind_output on the directory of the inference
InitDelta ==
    /\ InitDone
    /\ dpc = "read"
    /\ success_ids = None

NextDelta ==
    \/ ReadSuccess
    \/ Split
    \/ Score
    \/ Save

SpecDelta == InitDelta /\ [][NextDelta]_vars

\* split_multiligand_sdf called with the original indices of the molecules of
\* output.sdf as success_ids
InitSplit ==
    /\ InitDone
    /\ dpc = "split"
    /\ success_ids = Some([j \in 1..Len(output_sdf) |-> output_sdf[j].mol])

NextSplit == Split

SpecSplit == InitSplit /\ [][NextSplit]_vars

\* the name property of a molecule read back from output.sdf: the title line
\* of its record, empty for a molecule that was written without a name
ReadName(written) ==
    IF dataset[written.mol + 1].name.some THEN dataset[written.mol + 1].name.val ELSE <<>>

\* mol_dict: for every name, the last molecule of output.sdf that has it
MolDict(sdf) ==
    {<<ReadName(sdf[j]), sdf[j].mol>> : j \in {a \in 1..Len(sdf) :
        \A b \in (a + 1)..Len(sdf) : ReadName(sdf[b]) # ReadName(sdf[a])}}

\* df.sort_values(by='confidence_score', ascending=False).head(15): rows
\* without a score come last
ByConfidence(rows) ==
    LET key(row) == IF row.confidence_score.some THEN <<1, row.confidence_score.val>> ELSE <<0, 0>>
        before(x, y) == x[1] > y[1] \/ (x[1] = y[1] /\ x[2] >= y[2])
        p == CHOOSE q \in Permutations(1..Len(rows)) :
                 \A a, b \in 1..Len(rows) : a < b => before(key(rows[q[a]]), key(rows[q[b]]))
    IN  SubSeq([j \in 1..Len(rows) |-> rows[p[j]]], 1, Min(15, Len(rows)))

\* the loop of copy_top_15_sdf_files over the rows: a filename is copied the
\* first time it is met, when mol_dict has it as a name
RECURSIVE CopyLoop(_, _, _, _)
CopyLoop(rows, mol_dict, count, dest) ==
    IF rows = <<>> THEN [copied_files |-> count, dest_dir |-> dest]
    ELSE LET filename == Head(rows).filename
             found == {entry \in mol_dict : entry[1] = filename}
         IN  IF (\E written \in dest : written[1] = filename) \/ found = {}
             THEN CopyLoop(Tail(rows), mol_dict, count, dest)
             ELSE CopyLoop(Tail(rows), mol_dict, count + 1,
                           dest \cup {<<filename, (CHOOSE entry \in found : TRUE)[2]>>})

\* post_processing.py: the top 15 of confidence_scores.csv are looked up in
\* output.sdf and copied
CopyTop15 ==
    /\ dpc = "post"
    /\ confidence_csv.some
    /\ LET r == CopyLoop(ByConfidence(confidence_csv.val), MolDict(output_sdf), 0, {})
       IN  /\ copied_files' = Some(r.copied_files)
           /\ dest_dir' = r.dest_dir
    /\ dpc' = "copied"
    /\ UNCHANGED <<inference, valid, relative, success_ids, ligand_files, tool, results, cwd,
                   results_csv, ranked_csv>>

InitPost ==
    /\ InitDone
    /\ dpc = "post"
    /\ success_ids = None

NextPost == CopyTop15

SpecPost == InitPost /\ [][NextPost]_vars

----------------------------------------------------------------------------
(* Vocabulary of the properties *)

\* run_batch has returned for the current group and its results are at hand
RunBatchReturned == pc \in {"corrections", "loop", "done"} /\ path # "none"

TrueIndices == {batch[j].true_index : j \in 1..Len(batch)}

SuccessesOf(i) == {j \in 1..Len(successes) : successes[j][1] = i}
FailuresOf(i) == {j \in 1..Len(failures) : failures[j][1] = i}

Malformed == {j \in 1..Len(batch) : batch[j].lig.malformed}

\* the model exposes ligand keypoints, receptor keypoints, rotation, translation
ExposesAllFour == model.shape = "full" /\ model.missing = "none"

\* coordinates of the points of a keypoint tensor, whatever its shape
Points(t) == IF t.ndim = 1 THEN <<t.data[1]>> ELSE [j \in 1..Len(t.data) |-> t.data[j][1]]

\* the keypoint alignment error of a geometry: mean distance between
\* rotation * ligand keypoint + translation and the receptor keypoint
HasAlignmentError(geo) == geo.lig.some /\ geo.rec.some

AlignmentError(geo) ==
    LET l == Points(geo.lig.val)
        r == Points(geo.rec.val)
    IN  SumSeq([j \in 1..Len(l) |-> Abs(geo.rot * l[j] + geo.trans - r[j])]) \div Len(l)

\* the geometric loss if it is a plain numeric value, else 0
PlainGeomLoss == IF model.geom.type \in {"int", "float"} THEN model.geom.val ELSE 0

----------------------------------------------------------------------------
(* Properties of run_batch *)

\* C1: when run_batch returns for a group of N items, on either path, successes
\* and failures together hold exactly N records and every original index of
\* the group is in exactly one record.
C1_OneRecordPerIndex ==
    RunBatchReturned =>
        /\ Len(successes) + Len(failures) = Len(batch)
        /\ \A i \in TrueIndices : Cardinality(SuccessesOf(i)) + Cardinality(FailuresOf(i)) = 1

\* a fallback returned with records of both kinds
C1_Witness ==
    /\ RunBatchReturned /\ path = "fallback"
    /\ successes # <<>> /\ failures # <<>>

C3_ItemFailureIsolated ==
    path = "fallback" =>
        /\ raised = "none"
        /\ LET done == IF pc = "fallback" THEN k - 1 ELSE Len(batch)
           IN  /\ Len(attempted) = done
               /\ \A j \in 1..done :
                    LET i == batch[j].true_index
                    IN  IF batch[j].lig.malformed
                        THEN /\ SuccessesOf(i) = {}
                             /\ Cardinality(FailuresOf(i)) = 1
                             /\ \A f \in FailuresOf(i) :
                                  failures[f] = <<i, LigName(batch[j].lig, i)>>
                        ELSE /\ FailuresOf(i) = {}
                             /\ Cardinality(SuccessesOf(i)) = 1

\* a malformed first item failed and the item after it succeeded
C3_Witness ==
    /\ RunBatchReturned /\ path = "fallback"
    /\ Len(batch) >= 2 /\ batch[1].lig.malformed /\ ~batch[2].lig.malformed
    /\ Len(failures) = 1 /\ Len(successes) = 1

\* C4: the outcome of an item on the batched path equals the outcome of
\* running the item on its own: same status, name and confidence.
C4_FallbackEquivalence ==
    (RunBatchReturned /\ path = "batched") =>
        \A j \in 1..Len(batch) :
            LET r == IndividualResult(ModelOutput(model, <<batch[j]>>))
            IN  /\ r.ok
                /\ j <= Len(successes)
                /\ successes[j] = <<batch[j].true_index,
                                    LigName(batch[j].lig, batch[j].true_index),
                                    r.val.confidence>>

\* C5: a group with one malformed item ends in the fallback, not in a crash:
\* the malformed item is Failed, every other item succeeds, N records in all.
C5_MalformedItemFails ==
    (Cardinality(Malformed) = 1 /\ (RunBatchReturned \/ pc = "raised")) =>
        /\ pc # "raised"
        /\ path = "fallback"
        /\ Len(successes) + Len(failures) = Len(batch)
        /\ \A j \in 1..Len(batch) :
             IF j \in Malformed
             THEN Cardinality(FailuresOf(batch[j].true_index)) = 1
             ELSE Cardinality(SuccessesOf(batch[j].true_index)) = 1

\* number of lines of a log that start with the original index i
LinesOf(log, i) ==
    Cardinality({j \in 1..Len(log) :
                    /\ Len(log[j]) > Len(IndexStr(i))
                    /\ SubSeq(log[j], 1, Len(IndexStr(i)) + 1) = IndexStr(i) \o <<" ">>})

\* C6: a run of write_while_inferring always completes, and then exactly one
\* outcome has been emitted for each requested item.
C6_RunCompletes ==
    /\ pc # "raised"
    /\ pc = "done" =>
         /\ Len(confidence_data) = NumLigs
         /\ \A i \in 0..(NumLigs - 1) : LinesOf(success_txt, i) + LinesOf(failed_txt, i) = 1

\* C7: no exception of a model call, of the confidence computation or of the
\* rigid alignment leaves run_batch or run_corrections.
C7_NothingPropagates == raised = "none"

\* C8: when the model does not expose all of ligand keypoints, receptor
\* keypoints, rotation and translation, every item the model can process is a
\* success with confidence exactly 0, on the batched and on the fallback path.
C8_NeutralConfidence ==
    (RunBatchReturned /\ ~ExposesAllFour) =>
        /\ \A j \in 1..Len(batch) :
             ~batch[j].lig.malformed => Cardinality(SuccessesOf(batch[j].true_index)) = 1
        /\ \A j \in 1..Len(successes) : successes[j][3] = 0
        /\ \A j \in 1..Len(confidence_scores) : confidence_scores[j] = 0

\* the fallback scored an item of a model that returns six elements, one of
\* the four being None
C8_Witness ==
    /\ RunBatchReturned /\ path = "fallback"
    /\ model.shape = "full" /\ model.missing = "translations"
    /\ successes # <<>>

\* C9: with all four components present, the confidence of an item is
\* -(alignmentError + g), g being the geometric loss if it is a plain
\* numeric value and 0 otherwise, on both paths.
C9_ConfidenceFormula ==
    (RunBatchReturned /\ ExposesAllFour) =>
        \A j \in 1..Len(successes) :
            LET geo == dataset[successes[j][1] + 1].geo
            IN  HasAlignmentError(geo) =>
                    successes[j][3] = -(AlignmentError(geo) + PlainGeomLoss)

\* confidence written for the a-th molecule of output.sdf
WrittenConfidence(a) ==
    LET rows == SelectSeq(confidence_data, LAMBDA row : row.status = "success")
    IN  rows[a].confidence_score.val

\* C10: of two written predictions of one model (same geometric loss), the
\* one with the larger alignment error never has the higher confidence.
C10_Monotone ==
    ExposesAllFour =>
        \A a, b \in 1..Len(output_sdf) :
            LET ga == dataset[output_sdf[a].mol + 1].geo
                gb == dataset[output_sdf[b].mol + 1].geo
            IN  (/\ HasAlignmentError(ga) /\ HasAlignmentError(gb)
                 /\ AlignmentError(ga) > AlignmentError(gb))
                => WrittenConfidence(a) <= WrittenConfidence(b)

\* the confidence the path of the current group gives an entry when the
\* entry is the only item of the call
ConfidenceAlone(entry) ==
    IF path = "batched"
    THEN ConfidenceScoresBatched(Unpack(ModelOutput(model, <<entry>>)))[1]
    ELSE IndividualResult(ModelOutput(model, <<entry>>)).val.confidence

\* C11: an item whose confidence computation raises gets confidence 0 and is
\* still a success, nothing propagates, and every other item of the group has
\* the confidence it has when it is scored on its own.
C11_ConfidenceFailureIsolated ==
    (RunBatchReturned /\ ExposesAllFour) =>
        \A j \in 1..Len(batch) :
            ~batch[j].lig.malformed =>
                /\ Cardinality(SuccessesOf(batch[j].true_index)) = 1
                /\ \A s \in SuccessesOf(batch[j].true_index) :
                     IF HasAlignmentError(batch[j].lig.geo)
                     THEN successes[s][3] = ConfidenceAlone(batch[j])
                     ELSE successes[s][3] = 0

\* the batched path scored a group in which the computation of one item
\* raised and another item got a confidence other than 0
C11_Witness ==
    /\ RunBatchReturned /\ path = "batched" /\ ExposesAllFour
    /\ \E j \in 1..Len(batch) : ~HasAlignmentError(batch[j].lig.geo)
    /\ \E s \in 1..Len(successes) : successes[s][3] # 0
    /\ Len(successes) = Len(batch)

\* C12: whatever the shape of the model output (bare prediction, tuple of one
\* to six elements), in the batched call and in each individual call, the
\* predictions are taken, and no item the model can process becomes a failure.
C12_AnyShapeAccepted ==
    /\ raised \in {"none"} \cup ModelExceptions
    /\ RunBatchReturned =>
         /\ \A j \in 1..Len(batch) :
              ~batch[j].lig.malformed => Cardinality(SuccessesOf(batch[j].true_index)) = 1
         /\ Len(predictions) = Len(successes)
         /\ model.len < 6 => \A j \in 1..Len(successes) : successes[j][3] = 0
         /\ \A j \in 1..Len(successes) :
              predictions[j] = ModelOutput(model, <<[true_index |-> successes[j][1],
                                                     lig |-> dataset[successes[j][1] + 1]]>>).elems[1][1]

\* the fallback took the prediction of an item from a tuple of fewer than six
C12_Witness ==
    /\ RunBatchReturned /\ path = "fallback"
    /\ model.shape = "short" /\ model.len = 5
    /\ successes # <<>>

\* the name the rule gives the item of original index i
NameRule(i) ==
    LET lig == dataset[i + 1]
    IN  IF lig.name.some /\ \E c \in 1..Len(lig.name.val) : lig.name.val[c] # " "
        THEN lig.name.val
        ELSE IndexStr(i)

\* C13: on every path (batched success, individual success, individual
\* failure) the name of a record is the name property when it is present and
\* not blank, and otherwise the original index as a string; it is never empty.
C13_NameRule ==
    /\ \A s \in 1..Len(successes) :
         successes[s][2] = NameRule(successes[s][1]) /\ successes[s][2] # <<>>
    /\ \A f \in 1..Len(failures) :
         failures[f][2] = NameRule(failures[f][1]) /\ failures[f][2] # <<>>

\* a fallback recorded a success and a failure, one named by its index and
\* one by its name property
C13_Witness ==
    /\ RunBatchReturned /\ path = "fallback"
    /\ \E s \in 1..Len(successes) : \E f \in 1..Len(failures) :
         /\ successes[s][2] = IndexStr(successes[s][1])
         /\ dataset[failures[f][1] + 1].name.some
         /\ failures[f][2] = dataset[failures[f][1] + 1].name.val

\* a batched call named one item by its index and one by its name property
C13_WitnessBatched ==
    /\ RunBatchReturned /\ path = "batched"
    /\ \E s, t \in 1..Len(successes) :
         /\ ~dataset[successes[s][1] + 1].name.some
         /\ successes[s][2] = IndexStr(successes[s][1])
         /\ successes[t][2] = <<"m">>

\* run_corrections returned
CorrectionsReturned == rc_pc = "done"

\* C14: the molecule run_corrections returns has the atoms and the bonds of
\* the original molecule, whatever the topology (single atom, no rotatable
\* bond); only the coordinates differ.
C14_SameTopology ==
    CorrectionsReturned =>
        /\ Len(heap[returned].atoms) = Len(original.val.atoms)
        /\ heap[returned].atoms = original.val.atoms
        /\ heap[returned].bonds = original.val.bonds
        /\ heap[returned].name = original.val.name
        /\ Len(heap[returned].pos) = Len(original.val.atoms)

\* a single-atom molecule came back with other coordinates
C14_Witness ==
    /\ CorrectionsReturned
    /\ Len(original.val.atoms) = 1
    /\ rotable_bonds = <<>>
    /\ heap[returned].pos # original.val.pos

\* C15: when the SVD of the rigid alignment does not converge, run_corrections
\* raises nothing, sets no atom position after the dihedrals were applied, and
\* returns the optimized conformer with the coordinates it had before the
\* alignment.
C15_SvdFailureSkipsAlignment ==
    kabsch = "LinAlgError" =>
        /\ rc_pc # "raised"
        /\ rc_pc # "set_positions" /\ atom = 0
        /\ rc_pc \in {"align", "return", "done"} =>
               heap[optimized_mol].pos = coords_pred_optimized
        /\ CorrectionsReturned =>
               /\ returned = optimized_mol
               /\ heap[returned].pos = coords_pred_optimized

\* the SVD failed for a molecule with a rotatable bond that the alignment
\* would have moved, and run_corrections returned
C15_Witness ==
    /\ CorrectionsReturned /\ kabsch = "LinAlgError"
    /\ rotable_bonds # <<>>
    /\ RigidTransformKabsch(heap[returned].pos, coords_pred).t # 0

\* the dihedrals were applied and the alignment has not started
Optimized == rc_pc = "align"

\* the atoms no dihedral moves
Unmoved == 1..Min(3, Len(original.val.atoms))

\* every rotatable bond was fitted on its own, against the predicted point
\* cloud and the conformer as it was before any fit
FittedIndependently ==
    /\ Len(fitted) = Len(rotable_bonds)
    /\ \A j \in 1..Len(fitted) :
         /\ fitted[j].r = rotable_bonds[j]
         /\ fitted[j].Z_pt_cloud = ligs_coords_pred_untuned
         /\ fitted[j].conf = lig_coord
         /\ new_dihedrals[j] = ligs_coords_pred_untuned[rotable_bonds[j][4]]
                               - ligs_coords_pred_untuned[rotable_bonds[j][3]]

\* every rotatable bond of the optimized conformer has its fitted dihedral
DihedralsApplied ==
    \A j \in 1..Len(rotable_bonds) :
        LET r == rotable_bonds[j]
        IN  heap[optimized_mol].pos[r[4]] - heap[optimized_mol].pos[r[3]] = new_dihedrals[j]

\* C16 as amended: each rotatable bond's dihedral is fitted independently
\* against the same predicted point cloud, and all fitted dihedrals are
\* applied to the working conformer that holds the unmodified input
\* coordinates: the atoms no dihedral moves keep their input coordinates.
C16_AppliedToInputConformer ==
    Optimized =>
        /\ FittedIndependently
        /\ DihedralsApplied
        /\ optimized_mol \notin {lig_arg, lig_input, lig_equibind}
        /\ \A a \in Unmoved : heap[optimized_mol].pos[a] = lig_coord[a]

\* two rotatable bonds were fitted and applied, and the input coordinates
\* differ from the predicted ones
C16_Witness ==
    /\ Optimized
    /\ Len(rotable_bonds) = 2 /\ Len(fitted) = 2
    /\ new_dihedrals[1] # new_dihedrals[2]
    /\ \E a \in Unmoved : lig_coord[a] # ligs_coords_pred_untuned[a]

\* C16 as stated: the fitted dihedrals are applied to the working conformer
\* that holds the predicted coordinates, so the atoms no dihedral moves have
\* their predicted coordinates.
C16_AppliedToPredictedConformer ==
    Optimized =>
        /\ FittedIndependently
        /\ DihedralsApplied
        /\ \A a \in Unmoved : heap[optimized_mol].pos[a] = ligs_coords_pred_untuned[a]

\* C17: run_batch and run_corrections leave the molecule they are given as it
\* was (coordinates, name, atoms), at every statement and after the return,
\* on the normal path and on the SVD-failure path; the corrected pose is
\* another object.
C17_InputsImmutable ==
    /\ heap[ligs_arg[1]] = original.val
    /\ rc_pc # "run_batch" => lig_arg = ligs_arg[1]
    /\ CorrectionsReturned =>
         /\ returned # lig_arg
         /\ heap[lig_arg].pos = original.val.pos
         /\ heap[lig_arg].name = original.val.name
         /\ heap[lig_arg].atoms = original.val.atoms

\* run_corrections returned through the SVD-failure path with a pose whose
\* coordinates are not those of the molecule it was given
C17_Witness ==
    /\ CorrectionsReturned /\ kabsch = "LinAlgError"
    /\ heap[returned].pos # heap[lig_arg].pos

\* the processing of a group has ended: its records were written
GroupWritten == pc = "loop" /\ pos > 0

\* number of molecules of output.sdf that are poses of the item of index i
MolsOf(i) == Cardinality({a \in 1..Len(output_sdf) : output_sdf[a].mol = i})

\* the rows of confidence_data a group adds, from what run_batch reported
RowsOfGroup ==
    [j \in 1..Len(successes) |->
        [filename |-> NameRule(successes[j][1]) \o <<".", "s", "d", "f">>,
         confidence_score |-> Some(successes[j][3]), status |-> "success"]]
    \o [j \in 1..Len(failures) |->
        [filename |-> NameRule(failures[j][1]) \o <<".", "s", "d", "f">>,
         confidence_score |-> None, status |-> "failed"]]

\* C18: when the processing of a group has ended, every original index
\* handed out so far has exactly one record: an item run_batch reported as
\* succeeded has one line in success.txt, one molecule in output.sdf and one
\* row (name, confidence, success); an item reported as failed has one line in
\* failed.txt and one row (name, no confidence, failed).
C18_OneRecordPerGroupItem ==
    GroupWritten =>
        /\ \A i \in 0..(pos - 1) :
             /\ LinesOf(success_txt, i) + LinesOf(failed_txt, i) = 1
             /\ MolsOf(i) = LinesOf(success_txt, i)
        /\ \A i \in TrueIndices :
             /\ SuccessesOf(i) # {} => LinesOf(success_txt, i) = 1
             /\ FailuresOf(i) # {} => LinesOf(failed_txt, i) = 1
        /\ Len(output_sdf) = Len(success_txt)
        /\ Len(success_txt) + Len(failed_txt) = pos
        /\ Len(confidence_data) = pos
        /\ SubSeq(confidence_data, pos - Len(batch) + 1, pos) = RowsOfGroup

\* a group with a success and a failure was written, the correction of the
\* success having raised
C18_Witness ==
    /\ GroupWritten /\ run_corrections
    /\ successes # <<>> /\ failures # <<>>
    /\ \E a \in 1..Len(output_sdf) :
         output_sdf[a].mol \in TrueIndices /\ output_sdf[a].pose = "input"

\* the resumed run has finished
ResumedRunDone == run = 2 /\ pc = "done"

\* the logs and output.sdf hold exactly one record for every original index
LogsAndSdfComplete ==
    \A i \in 0..(NumLigs - 1) :
        /\ LinesOf(success_txt, i) + LinesOf(failed_txt, i) = 1
        /\ MolsOf(i) = LinesOf(success_txt, i)

\* confidence_scores.csv holds one row for every original index
CsvComplete ==
    /\ confidence_csv.some
    /\ Len(confidence_csv.val) = NumLigs
    /\ Len(SelectSeq(confidence_csv.val, LAMBDA row : row.status = "success")) = Len(success_txt)
    /\ Len(SelectSeq(confidence_csv.val, LAMBDA row : row.status = "failed")) = Len(failed_txt)

\* C19: a resumed run processes only the indices that are not in the earlier
\* logs, and when it has finished, output.sdf, success.txt, failed.txt and
\* confidence_scores.csv hold exactly one record for every original index of
\* the full input set.
C19_ResumeMerges ==
    /\ run = 2 => \A j \in 1..Len(batch) : ~Skipped(batch[j].true_index)
    /\ ResumedRunDone => LogsAndSdfComplete /\ CsvComplete

\* the original indices of the records of the group
RecordIndices ==
    {successes[j][1] : j \in 1..Len(successes)} \cup {failures[j][1] : j \in 1..Len(failures)}

\* every line of a log is the original index, one space and the name
LinesWellFormed ==
    (run = 1 /\ pc \in {"loop", "done"}) =>
        /\ success_txt = [j \in 1..Len(successes) |->
                             IndexStr(successes[j][1]) \o <<" ">> \o successes[j][2]]
        /\ failed_txt = [j \in 1..Len(failures) |->
                            IndexStr(failures[j][1]) \o <<" ">> \o failures[j][2]]

\* C20: every success and every failure is logged as one line made of the
\* original index, one space and the name, and main, re-reading success.txt
\* and failed.txt, gets as skip set exactly the original indices logged,
\* whatever the name (with spaces, made of digits, replaced by the index).
C20_LogRoundTrip ==
    /\ [](LinesWellFormed)
    /\ [][(run = 1 /\ run' = 2) =>
            /\ raised' = "none"
            /\ previous_work'.some
            /\ previous_work'.val = RecordIndices]_vars

\* the logs of a record with a two-digit index and of a record whose name
\* holds a space were read back
C20_Witness ==
    /\ run = 2 /\ previous_work.some
    /\ Cardinality(previous_work.val) = 2
    /\ \E i \in previous_work.val : i >= 10
    /\ \E j \in 1..Len(failed_txt) : \E c \in 3..Len(failed_txt[j]) : failed_txt[j][c] = " "

----------------------------------------------------------------------------
(* The life of one item *)

\* position of the item of original index i in the group being processed
PosInBatch(i) == CHOOSE j \in 1..Len(batch) : batch[j].true_index = i

\* position of the item among the ligands run_batch returned
PosInOutLigs(i) == CHOOSE j \in 1..Len(out_ligs) : out_ligs[j] = i

\* the state of the item of original index i, read from the state of the run
ItemState(i) ==
    IF LinesOf(success_txt, i) > 0 THEN "Written"
    ELSE IF LinesOf(failed_txt, i) > 0 THEN "FailedWritten"
    ELSE IF i \notin TrueIndices \/ pc = "loop" THEN "Pending"
    ELSE IF pc = "run_batch" THEN "BatchAttempted"
    ELSE IF pc = "return" THEN "BatchSucceeded"
    ELSE IF pc = "fallback"
         THEN IF PosInBatch(i) >= k THEN "BatchFailed"
              ELSE IF SuccessesOf(i) # {} THEN "IndividualSucceeded" ELSE "IndividualFailed"
    ELSE IF pc = "corrections"
         THEN IF FailuresOf(i) # {} THEN "IndividualFailed"
              ELSE IF PosInOutLigs(i) < k THEN "Corrected"
              ELSE IF path = "batched" THEN "BatchSucceeded" ELSE "IndividualSucceeded"
    ELSE "BatchFailed"

\* the steps of the per-item state machine; the individual attempt and its
\* outcome are one step
ItemSteps ==
    {<<"Pending", "BatchAttempted">>,
     <<"BatchAttempted", "BatchSucceeded">>, <<"BatchAttempted", "BatchFailed">>,
     <<"BatchFailed", "IndividualSucceeded">>, <<"BatchFailed", "IndividualFailed">>,
     <<"BatchSucceeded", "Corrected">>, <<"IndividualSucceeded", "Corrected">>,
     <<"Corrected", "Written">>, <<"IndividualFailed", "FailedWritten">>}

TerminalStates == {"Written", "FailedWritten"}

Items == 0..(NumLigs - 1)

\* the run of write_while_inferring is over
RunOver == pc \in {"done", "raised"}

\* individual calls are made only in the fallback, corrected and written
\* molecules are poses of succeeded items, no item has two terminal records
ItemsConsistent ==
    /\ attempted # <<>> => path = "fallback"
    /\ \A a \in 1..Len(opt_mols) : SuccessesOf(opt_mols[a].mol) # {}
    /\ \A i \in Items :
         /\ LinesOf(success_txt, i) + LinesOf(failed_txt, i) <= 1
         /\ MolsOf(i) = LinesOf(success_txt, i)

\* every item makes only steps of the state machine, and none once terminal
ItemsStep ==
    \A i \in Items :
        \/ ItemState(i)' = ItemState(i)
        \/ <<ItemState(i), ItemState(i)'>> \in ItemSteps

\* C21: every item follows the state machine Pending, BatchAttempted,
\* BatchSucceeded or (BatchFailed, then IndividualSucceeded or
\* IndividualFailed), Corrected and Written on success, Failed-Written on
\* failure; when the run is over every item is in exactly one terminal state,
\* and a terminal state is never left.
C21_ItemStateMachine ==
    /\ [](ItemsConsistent)
    /\ [](RunOver => \A i \in Items : ItemState(i) \in TerminalStates)
    /\ [][ItemsStep]_vars

\* the state machine without the end of the run
C21_StepsOnly ==
    /\ [](ItemsConsistent)
    /\ [][ItemsStep]_vars

\* the records of a list are in the order their items have in the group
InGroupOrder(records) ==
    \A a, b \in 1..Len(records) :
        a < b => /\ records[a][1] \in TrueIndices
                 /\ records[b][1] \in TrueIndices
                 /\ PosInBatch(records[a][1]) < PosInBatch(records[b][1])

\* C22: the fallback attempts the items one after another in input order, and
\* on both paths the original indices within successes and within failures
\* are in the relative order of the input group.
C22_InputOrderKept ==
    /\ attempted = [j \in 1..Len(attempted) |-> batch[j].true_index]
    /\ pc = "fallback" => Len(attempted) = k - 1
    /\ InGroupOrder(successes)
    /\ InGroupOrder(failures)

\* the fallback attempted two items in order and both succeeded
C22_Witness ==
    /\ RunBatchReturned /\ path = "fallback"
    /\ Len(attempted) = 2 /\ Len(successes) = 2
    /\ successes[1][1] < successes[2][1]

\* C26: when run_batch returns, out_ligs, out_lig_coords, predictions,
\* confidence_scores and successes have the same length and their k-th
\* entries belong to the same original index; the final length assertion of
\* run_batch never fails, on either path.
C26_ListsAligned ==
    /\ raised # "AssertionError"
    /\ RunBatchReturned =>
         /\ Len(out_ligs) = Len(successes)
         /\ Len(out_lig_coords) = Len(successes)
         /\ Len(predictions) = Len(successes)
         /\ Len(confidence_scores) = Len(successes)
         /\ \A j \in 1..Len(successes) :
              /\ out_ligs[j] = successes[j][1]
              /\ out_lig_coords[j] = successes[j][1]
              /\ predictions[j] = successes[j][1]
              /\ confidence_scores[j] = successes[j][3]

\* the fallback returned after a failure followed by a success
C26_Witness ==
    /\ RunBatchReturned /\ path = "fallback"
    /\ Len(batch) = 2 /\ Len(failures) = 1 /\ Len(successes) = 1
    /\ failures[1][1] < successes[1][1]
    /\ out_ligs = <<successes[1][1]>>

\* the last n elements of a sequence
LastN(seq, n) == SubSeq(seq, Len(seq) - n + 1, Len(seq))

\* the success rows of the confidence data
SuccessRows == SelectSeq(confidence_data, LAMBDA row : row.status = "success")

\* what a group added to output.sdf, success.txt and the confidence data
\* goes with the successes of run_batch, one for one and in their order
GroupSuccessesWritten ==
    LET n == Len(successes)
    IN  /\ Len(output_sdf) = Len(success_txt) /\ Len(SuccessRows) = Len(success_txt)
        /\ Len(output_sdf) >= n
        /\ \A j \in 1..n :
             /\ LastN(output_sdf, n)[j].mol = successes[j][1]
             /\ LastN(success_txt, n)[j] = IndexStr(successes[j][1]) \o <<" ">> \o successes[j][2]
             /\ LastN(SuccessRows, n)[j].confidence_score = Some(successes[j][3])
             /\ LastN(SuccessRows, n)[j].filename = Filename(NameRule(successes[j][1]))
             /\ ~run_corrections => LastN(output_sdf, n)[j].pose = "input"
        /\ Len(output_sdf) - n = Cardinality({i \in 0..(pos - Len(batch) - 1) : MolsOf(i) > 0})

\* a step of the correction loop adds one molecule for the item it is at,
\* the input molecule when corrections are disabled, and never ends the run
CorrectionStep ==
    (pc = "corrections" /\ pc' = "corrections") =>
        /\ Len(opt_mols') = Len(opt_mols) + 1
        /\ opt_mols'[Len(opt_mols')].mol = out_ligs[k]
        /\ opt_mols'[Len(opt_mols')].pose \in {"aligned", "optimized", "input"}

\* C27: for every group, as many molecules are written to output.sdf, lines
\* to success.txt and success rows to the confidence data as run_batch
\* returned successes, the k-th of each for the same original index; an item
\* whose correction raises, or whose correction is disabled, is still written,
\* with the input molecule.
C27_SuccessesWrittenOneForOne ==
    /\ [](GroupWritten => GroupSuccessesWritten)
    /\ [](raised \notin {"ValueError", "LinAlgError"})
    /\ [][CorrectionStep]_vars
    /\ [][pc = "corrections" => pc' \in {"corrections", "loop"}]_vars

\* a group of two successes was written with corrections enabled, the first
\* molecule uncorrected because its correction raised, the second corrected
C27_Witness ==
    /\ GroupWritten /\ run_corrections
    /\ Len(successes) = 2 /\ Len(output_sdf) >= 2
    /\ LastN(output_sdf, 2)[1].pose = "input"
    /\ LastN(output_sdf, 2)[2].pose = "aligned"

\* C28: after any sequence of runs of main on one output directory with
\* skipping enabled, a run with only one of the two logs included, no original
\* index has more than one line across success.txt and failed.txt and no
\* molecule is written to output.sdf twice.
C28_NoRecordTwice ==
    \A i \in Items :
        /\ LinesOf(success_txt, i) + LinesOf(failed_txt, i) <= 1
        /\ MolsOf(i) <= 1

----------------------------------------------------------------------------
(* The readers of the output directory *)

\* the original indices of the molecules of output.sdf, in the order of the file
WrittenIds == [j \in 1..Len(output_sdf) |-> output_sdf[j].mol]

\* C23: read_success_file, applied to the success.txt the inference wrote,
\* returns exactly the original indices of the successful ligands, so that
\* process_equibind_output filters on them when success.txt is there.
C23_SuccessIdsRead ==
    (dpc # "read" /\ "success.txt" \in logs) => success_ids = Some(WrittenIds)

\* every result row is the row of its ligand file, with the score the tool
\* gives for that ligand, SUCCESS with a score and FAILED without
RowsFaithful ==
    /\ Len(results) = Len(ligand_files)
    /\ \A j \in 1..Len(results) :
         /\ results[j].ligand_id = ligand_files[j][1]
         /\ results[j].xgb_score = tool[j]
         /\ results[j].status = (IF tool[j] # None THEN "SUCCESS" ELSE "FAILED")

\* ligands_ranked.csv holds the SUCCESS rows, each once, highest score first
RankedFaithful ==
    /\ ranked_csv.some
    /\ Descending(ranked_csv.val)
    /\ \A row \in {results[j] : j \in 1..Len(results)} \cup {ranked_csv.val[j] : j \in 1..Len(ranked_csv.val)} :
         Len(SelectSeq(ranked_csv.val, LAMBDA r : r = row))
           = Len(SelectSeq(results, LAMBDA r : r = row /\ r.status = "SUCCESS"))

\* C24: process_equibind_output writes one result row per ligand it
\* processes, SUCCESS exactly when a score was obtained and FAILED otherwise,
\* ligands_ranked.csv holds exactly the SUCCESS rows, highest score first, and
\* a ligand that fails does not keep the others from being scored.
C24_ResultsWritten ==
    /\ dpc # "raised"
    /\ dpc = "score" => \A j \in 1..Len(results) :
                            (results[j].status = "SUCCESS") = (tool[j] # None)
    /\ dpc = "returned True" => /\ RowsFaithful
                                /\ results_csv = Some(results)
                                /\ RankedFaithful

\* C25: given the success ids, split_multiligand_sdf writes to ligand_<i>.pdb
\* the pose of the ligand of original index i, and only for successful
\* ligands, also when ligands that failed are absent from output.sdf.
C25_FileHoldsItsLigand ==
    dpc # "split" =>
        \A j \in 1..Len(ligand_files) :
            /\ ligand_files[j][2].holds = ligand_files[j][1]
            /\ InIds(ligand_files[j][1], WrittenIds)

\* C29: run_delta_linf9 leaves the working directory of the process as it
\* found it, whatever the outcome of the call.
C29_WorkingDirectoryKept == [][cwd' = cwd]_vars

\* the filenames of the successful items among the rows
\* copy_top_15_sdf_files is given
Selected == {confidence_csv.val[j].filename :
                j \in {a \in 1..Len(confidence_csv.val) : confidence_csv.val[a].status = "success"}}

\* C30: every filename confidence_scores.csv records for a successful item
\* is found among the molecules of output.sdf by copy_top_15_sdf_files and
\* copied, once, and the returned count is the number of distinct filenames
\* selected.
C30_SelectedAreCopied ==
    dpc = "copied" =>
        /\ \A j \in 1..Len(confidence_csv.val) :
             confidence_csv.val[j].status = "success" =>
                 Cardinality({written \in dest_dir : written[1] = confidence_csv.val[j].filename}) = 1
        /\ copied_files = Some(Cardinality(Selected))

====
